---- MODULE Spec2Model ----
(***************************************************************************)
(* Study-session audio and synthesis pipeline of the Dashboard component   *)
(* (src/components/Dashboard.tsx) with the log-store calls it makes        *)
(* (src/App.tsx): recording, grading (analyzeAudio), the background        *)
(* synthesis job (processOnlyModelMedia), the speech cache and playback.   *)
(*                                                                         *)
(* JavaScript is single threaded: a handler runs from its call, or from    *)
(* the completion of the call it awaits, to its next await of a network,   *)
(* device or timer completion.  Each such run is one action.  An await of  *)
(* an async function that itself awaits nothing (decodeRawPcm) resumes in  *)
(* the same microtask checkpoint, so no click, timer, media event or       *)
(* network completion can run in between: it is part of the same action.   *)
(*                                                                         *)
(* React state (useState) read inside a handler is the value of the render *)
(* in which the handler was created.  A handler called from a click reads  *)
(* the current state; a callback that outlives its render (recorder.onstop,*)
(* the polling interval) keeps reading the values of the render it was     *)
(* created in, which the model stores with the callback.  Refs (useRef)    *)
(* are always read at their current value.                                 *)
(***************************************************************************)
EXTENDS Integers, Sequences, FiniteSets, TLC

\* Recordings (and so grading attempts and sessions) one behaviour may start.
MaxRec == 2

\* playHighQualityAudio invocations that may be live at a time: in flight, or
\* returned with a source that has not delivered its ended event.
MaxPlay == 2

Calls == 1..MaxPlay

\* Synthesis requests counted per text; further ones leave the count there.
MaxSynth == 2

\* Pending events of cancelled question utterances that are told apart.
MaxUttEvents == 2

\* Longest part of a grading response followed character by character.
MaxLen == 2

\* A session id is the number of the recording it was graded from; 0 is null.
Recs == 1..MaxRec

\* Flattened (delimiter-free, trimmed) model-answer texts; "" is the empty text.
Texts == {"t1", "t2"}

\* selectUnit calls followed.
MaxSel == 2
Sels == 1..MaxSel

\* Indexes of the curriculum units (units[idx]).
Units == {1, 2}

VARIABLES
    \* ---- RecordingController (Dashboard.tsx 99-101, 143-144, 470-532)
    rec,                \* rec[r]: recorder r, its closure and its device stream
    mediaRecorderRef,   \* useRef: the recorder last created, 0 = null
    isCancellingRef,    \* useRef: the shared cancel flag
    isRecording,        \* useState
    isPaused,           \* useState
    recordedBlob,       \* useState: the recording whose clip was finalized, 0 = null
    \* ---- SessionOrchestrator (Dashboard.tsx 102-116, 534-643)
    isAnalyzing,        \* useState
    ana,                \* ana[r]: the analyzeAudio invocation for recording r's clip
    feedbackResult,     \* useState: the displayed result
    unitHistory,        \* useState: the listed log entries, newest first
    alerts,             \* number of failure notices shown (alert calls)
    \* ---- external log store (App.tsx 441-473)
    logRows,            \* the rows of Study_Log, in sheet order
    \* ---- SynthesisJob and SpeechCache (Dashboard.tsx 138, 146, 645-676)
    job,                \* job[s]: the processOnlyModelMedia invocation for session s
    syncingCorrectionSessionId,  \* useRef: the in-flight marker, 0 = null
    localTtsCache,      \* useRef: text -> cached audio, or the absent entry
    synthCalls,         \* synthCalls[t]: requests sent to the speech-synthesis backend for t
    updIssued,          \* sessions for which the job has called updateStudyLog
    \* ---- PlaybackController (Dashboard.tsx 139-141, 361-468)
    ttsState,           \* useState: the observable status, id "" = null
    activeAudioSource,  \* useRef: the call whose buffer source is referenced, 0 = null
    call,               \* call[c]: the playHighQualityAudio invocation c and its source
    utt,                \* what window.speechSynthesis is speaking
    uttEvents,          \* cancelled question utterances whose end/error event is pending
    \* ---- unit progress, blob store and deletion (Dashboard.tsx 757-774, App.tsx 431-439, 490-515, 573-587)
    unitStatus,         \* status cell of the selected unit in the Progress sheet
    units,              \* status of the selected unit in the in-memory unit list
    del,                \* del[s]: the handleDeleteLog invocation for session s
    deletedFiles,       \* assets removed from the blob store
    \* ---- flattened three-part texts (Dashboard.tsx 28, 50-52, 595-606, 729-739)
    dataParts,          \* data.correctionParts / data.translationParts of the grading response
    correction,         \* result.correction / result.translatedAnswer as stored in the log
    restudyParts,       \* the parts restudyLog recovers from the stored text
    selectedDirection,  \* the Style Direction selected (97), "none" for null
    \* ---- unit selection (Dashboard.tsx 80, 313-348)
    selectedUnitIdx,    \* useState: index of the unit shown
    sel                 \* sel[k]: the selectUnit invocation k

recVars == <<rec, mediaRecorderRef, isCancellingRef, isRecording, isPaused, recordedBlob>>
anaVars == <<isAnalyzing, ana, feedbackResult, unitHistory, alerts, logRows>>
jobVars == <<job, syncingCorrectionSessionId, updIssued>>
cacheVars == <<localTtsCache, synthCalls>>

playVars == <<ttsState, activeAudioSource, call, utt, uttEvents>>
storeVars == <<unitStatus, units, del, deletedFiles>>
textVars == <<dataParts, correction, restudyParts, selectedDirection>>
unitVars == <<selectedUnitIdx, sel>>

vars == <<recVars, anaVars, jobVars, cacheVars, playVars, storeVars, textVars, unitVars>>

----------------------------------------------------------------------------
\* Values

\* cancelled and out record what happened to the recording: whether
\* cancelRecording stopped it, and whether its stop event finalized a clip;
\* dir is selectedDirection and unit is selectedUnitIdx as the closure of the
\* recording reads them.
NoRec == [st |-> "none", sawAnalyzing |-> FALSE, stream |-> "none",
          cancelled |-> FALSE, out |-> "none", dir |-> "none", unit |-> 0]
\* unit is the idx argument of the selectUnit invocation.
NoSel == [pc |-> "none", unit |-> 0]
\* data of a grading response: the fields of the parsed JSON, "" for a field
\* the response lacks; correction and translation are the flattened texts of
\* the three parts, "" when the parts are missing or empty, and "absent"
\* when the response has no correctionParts / translationParts object.
NoData == [transcript |-> "", level |-> "", feedback |-> "", correction |-> "absent",
           translation |-> "absent"]
\* at is the await at which the invocation threw; data is its parsed response.
\* result holds the objective fields of the result built from the response.
NoFields == [transcript |-> "", grade |-> "", feedback |-> ""]
NoAna == [pc |-> "none", raw |-> FALSE, corr |-> "", saved |-> FALSE, at |-> "none",
          data |-> NoData, result |-> NoFields]
\* link and raw are log.audioLink and log.rawAudioLink of the entry clicked,
\* hist the unitHistory of the render clicked in, row the index looked up;
\* assetsOk tells that no asset deletion of the invocation has failed.
NoDel == [pc |-> "none", link |-> 0, raw |-> FALSE, hist |-> <<>>, row |-> 0,
          assetsOk |-> TRUE]
NoJob == [pc |-> "none", url |-> 0, row |-> 0]
NoResult == [sess |-> 0, audioLink |-> 0]
Absent == [kind |-> "absent", of |-> ""]
NoTts == [id |-> "", status |-> "idle"]
\* bytes is what the call's fetch returned; src is the state of the buffer
\* source the call started.
\* sawSelf is what the test of line 376 yields in the invocation's closure.
NoCall == [pc |-> "none", id |-> "", text |-> "", url |-> "", sawSelf |-> FALSE,
           bytes |-> "", src |-> "none",
           stopped |-> FALSE]

\* The audio the speech-synthesis backend returns for text t.
Tts(t) == [kind |-> "tts", of |-> t]

\* cleanText / plainCorrection (Dashboard.tsx 379, 648): texts are kept in
\* flattened form, so flattening leaves them as they are.
Plain(t) == t

Min(a, b) == IF a < b THEN a ELSE b

\* synthCalls after one more request for text k.
Counted(k) == [synthCalls EXCEPT ![k] = Min(@ + 1, MaxSynth)]

\* No three-part text is followed: the texts of the sessions are the tokens
\* of Texts.
NoParts == [intro |-> <<>>, body |-> <<>>, conclusion |-> <<>>]
\* restudyLog has not been called (st "none"), or it left the parts
\* undefined, or it built them from count pieces.
NotRestudied == [st |-> "none", intro |-> <<>>, body |-> <<>>, conclusion |-> <<>>, count |-> 0]
NoTexts ==
    /\ dataParts = NoParts /\ correction = <<>> /\ restudyParts = NotRestudied
    /\ selectedDirection = "none"

\* The first unit is shown and no selectUnit call is pending.
UnitShown == selectedUnitIdx = 1 /\ sel = [k \in Sels |-> NoSel]

\* The state of the mounted component, nothing recorded yet.
Mounted ==
    /\ UnitShown
    /\ rec = [r \in Recs |-> NoRec]
    /\ mediaRecorderRef = 0
    /\ isCancellingRef = FALSE
    /\ isRecording = FALSE
    /\ isPaused = FALSE
    /\ recordedBlob = 0
    /\ isAnalyzing = FALSE
    /\ ana = [r \in Recs |-> NoAna]
    /\ feedbackResult = NoResult
    /\ unitHistory = <<>>
    /\ alerts = 0
    /\ logRows = <<>>
    /\ job = [r \in Recs |-> NoJob]
    /\ syncingCorrectionSessionId = 0
    /\ localTtsCache = [t \in Texts |-> Absent]
    /\ synthCalls = [t \in Texts |-> 0]
    /\ updIssued = {}
    /\ ttsState = NoTts
    /\ activeAudioSource = 0
    /\ call = [c \in Calls |-> NoCall]
    /\ utt = "none"
    /\ uttEvents = 0
    /\ unitStatus = "todo"
    /\ units = "todo"
    /\ del = [s \in Recs |-> NoDel]
    /\ deletedFiles = {}

Init == Mounted /\ NoTexts

----------------------------------------------------------------------------
\* RecordingController

\* A MediaRecorder is active while it records or is paused.
Active(r) == rec[r].st \in {"recording", "paused"}

\* startRecording up to its await of getUserMedia (Dashboard.tsx 470-479).
\* The recorder's onstop closure is created in this call: the analyzeAudio it
\* calls reads isAnalyzing as rendered now.
StartRecording(r) ==
    /\ rec[r].st = "none"
    /\ \A q \in Recs : q < r => rec[q].st # "none"
    /\ recordedBlob' = 0
    /\ feedbackResult' = NoResult
    /\ isPaused' = FALSE
    /\ isCancellingRef' = FALSE
    /\ rec' = [rec EXCEPT ![r] = [NoRec EXCEPT !.st = "acquiring",
                                               !.sawAnalyzing = isAnalyzing,
                                               !.dir = selectedDirection,
                                               !.unit = selectedUnitIdx]]
    /\ UNCHANGED <<mediaRecorderRef, isRecording, isAnalyzing, ana, unitHistory,
                   alerts, logRows, jobVars, cacheVars, playVars, storeVars, textVars, unitVars>>

\* getUserMedia resolved: the recorder is created and started (480-505).
MicGranted(r) ==
    /\ rec[r].st = "acquiring"
    /\ rec' = [rec EXCEPT ![r].st = "recording", ![r].stream = "held"]
    /\ mediaRecorderRef' = r
    /\ isRecording' = TRUE
    /\ UNCHANGED <<isCancellingRef, isPaused, recordedBlob, anaVars, jobVars, cacheVars, playVars, storeVars,
                   textVars, unitVars>>

\* getUserMedia rejected: the catch block shows the permission notice (506).
MicDenied(r) ==
    /\ rec[r].st = "acquiring"
    /\ rec' = [rec EXCEPT ![r].st = "denied"]
    /\ alerts' = alerts + 1
    /\ UNCHANGED <<mediaRecorderRef, isCancellingRef, isRecording, isPaused, recordedBlob,
                   isAnalyzing, ana, feedbackResult, unitHistory, logRows, jobVars, cacheVars, playVars, storeVars,
                   textVars, unitVars>>

\* stopRecording (509-513).  MediaRecorder.stop() on an inactive recorder
\* throws after the two state updates were made.
StopRecording ==
    /\ isRecording' = FALSE
    /\ isPaused' = FALSE
    /\ rec' = IF mediaRecorderRef # 0 /\ Active(mediaRecorderRef)
                THEN [rec EXCEPT ![mediaRecorderRef].st = "stopping"]
                ELSE rec
    /\ UNCHANGED <<mediaRecorderRef, isCancellingRef, recordedBlob, anaVars, jobVars, cacheVars, playVars, storeVars,
                   textVars, unitVars>>

\* togglePauseRecording with isPaused updated before the recorder is asked.
TogglePauseEager ==
    /\ isPaused' = ~isPaused
    /\ rec' = IF mediaRecorderRef # 0 /\ Active(mediaRecorderRef)
                THEN [rec EXCEPT ![mediaRecorderRef].st = IF isPaused THEN "recording" ELSE "paused"]
                ELSE rec
    /\ UNCHANGED <<mediaRecorderRef, isCancellingRef, isRecording, recordedBlob,
                   anaVars, jobVars, cacheVars, playVars, storeVars, textVars, unitVars>>

\* togglePauseRecording (515-524).  pause() and resume() throw on an inactive
\* recorder, before isPaused is set.
TogglePauseRecording ==
    /\ IF mediaRecorderRef # 0 /\ Active(mediaRecorderRef)
         THEN IF isPaused
                THEN /\ rec' = [rec EXCEPT ![mediaRecorderRef].st = "recording"]
                     /\ isPaused' = FALSE
                ELSE /\ rec' = [rec EXCEPT ![mediaRecorderRef].st = "paused"]
                     /\ isPaused' = TRUE
         ELSE UNCHANGED <<rec, isPaused>>
    /\ UNCHANGED <<mediaRecorderRef, isCancellingRef, isRecording, recordedBlob,
                   anaVars, jobVars, cacheVars, playVars, storeVars, textVars, unitVars>>

\* cancelRecording (526-532).  stop() on an inactive recorder throws after the
\* flag was set and before the two state updates.
CancelRecording ==
    /\ mediaRecorderRef # 0
    /\ isCancellingRef' = TRUE
    /\ IF Active(mediaRecorderRef)
         THEN /\ rec' = [rec EXCEPT ![mediaRecorderRef].st = "stopping",
                                    ![mediaRecorderRef].cancelled = TRUE]
              /\ isRecording' = FALSE
              /\ isPaused' = FALSE
         ELSE UNCHANGED <<rec, isRecording, isPaused>>
    /\ UNCHANGED <<mediaRecorderRef, recordedBlob, anaVars, jobVars, cacheVars, playVars, storeVars, textVars, unitVars>>

----------------------------------------------------------------------------
\* SessionOrchestrator: analyzeAudio

\* The guard of analyzeAudio (535): isAnalyzing as the calling closure reads
\* it, which is the value rendered when recording r was started.
Busy(r) == rec[r].sawAnalyzing

\* analyzeAudio from its call to its first await (534-564).
AnalyzeAudio(r) ==
    IF Busy(r)
      THEN /\ ana' = [ana EXCEPT ![r].pc = "rejected"]
           /\ UNCHANGED isAnalyzing
      ELSE /\ ana' = [ana EXCEPT ![r].pc = "upload"]
           /\ isAnalyzing' = TRUE

\* The flag test of recorder.onstop (491).
CancelSeen == isCancellingRef

\* recorder.onstop: the stop event of recorder r is delivered (490-502).
OnStop(r) ==
    /\ rec[r].st = "stopping"
    /\ IF CancelSeen
         THEN /\ isCancellingRef' = FALSE
              /\ rec' = [rec EXCEPT ![r].st = "inactive", ![r].stream = "released",
                                    ![r].out = "discarded"]
              /\ UNCHANGED <<recordedBlob, isAnalyzing, ana>>
         ELSE /\ recordedBlob' = r
              /\ rec' = [rec EXCEPT ![r].st = "inactive", ![r].stream = "released",
                                    ![r].out = "clip"]
              /\ AnalyzeAudio(r)
              /\ UNCHANGED isCancellingRef
    /\ UNCHANGED <<mediaRecorderRef, isRecording, isPaused, feedbackResult, unitHistory,
                   alerts, logRows, jobVars, cacheVars, playVars, storeVars, textVars, unitVars>>

\* uploadAudioToDrive returned: a link, or null for a non-2xx response (564,
\* App.tsx 426); the grading request is sent.
AnaUploaded(r, ok) ==
    /\ ana[r].pc = "upload"
    /\ ana' = [ana EXCEPT ![r].pc = "grade", ![r].raw = ok]
    /\ UNCHANGED <<recVars, isAnalyzing, feedbackResult, unitHistory, alerts, logRows,
                   jobVars, cacheVars, playVars, storeVars, textVars, unitVars>>

\* The levels the grading prompt asks for (578).
Scale == {"AL", "IH", "IM3", "IM2", "IM1", "NH"}

\* Parsed grading responses: each field present or lacking, the level on the
\* scale, off the scale or lacking.
GradeData ==
    [transcript : {"", "said"}, level : {"", "AL", "Advanced"}, feedback : {"", "advice"},
     correction : {"absent", ""} \cup Texts, translation : {"absent", "", "meaning"}]

\* The response the prompt asks for, with flattened correction c.
GoodData(c) == [transcript |-> "said", level |-> "AL", feedback |-> "advice",
                correction |-> c, translation |-> "meaning"]

\* data.correctionParts.intro and data.translationParts.intro (595-601) throw
\* when the object is not there; cleanAiText (50-52) turns any other lacking
\* field into "".
ParseThrows(d) == d.correction = "absent" \/ d.translation = "absent"

\* result.predictedLevel (610).
PredictedLevel(d) == IF d.level = "" THEN "IM" ELSE d.level

\* The Style Directions (AnswerDirection), "none" for null.
Directions == {"none", "EASY", "NATIVE", "STORYTELLER"}

\* A result whose grade is lifted when a style was selected.
ResultStyled(r, d) ==
    [transcript |-> d.transcript,
     grade |-> IF rec[r].dir = "none" THEN PredictedLevel(d) ELSE "AL",
     feedback |-> d.feedback]

\* The objective fields of the result analyzeAudio builds for recording r
\* from the parsed response d (603-609), which go to the log as rawAnswer,
\* grade and feedback (626-629).  The text tokens of GradeData carry no
\* markup, so cleanAiText leaves them as they are.
Result(r, d) ==
    [transcript |-> d.transcript, grade |-> PredictedLevel(d), feedback |-> d.feedback]

\* The grading response arrived and JSON.parse returned d (593-634): unless
\* reading the parts throws, the result is displayed and saveStudyLog is
\* called.
GradingResponse(r, d) ==
    /\ ana[r].pc = "grade"
    /\ IF ParseThrows(d)
         THEN /\ ana' = [ana EXCEPT ![r].pc = "failed", ![r].at = "grade", ![r].data = d]
              /\ alerts' = alerts + 1
              /\ isAnalyzing' = FALSE
              /\ UNCHANGED feedbackResult
         ELSE /\ ana' = [ana EXCEPT ![r].pc = "save", ![r].corr = d.correction, ![r].data = d,
                                    ![r].result = Result(r, d)]
              /\ feedbackResult' = [sess |-> r, audioLink |-> 0]
              /\ UNCHANGED <<alerts, isAnalyzing>>
    /\ UNCHANGED <<recVars, unitHistory, logRows, jobVars, cacheVars, playVars, storeVars, textVars, unitVars>>

\* The grading response is the one asked for; c is its flattened correction,
\* "" when the three parts came back empty.
AnaGraded(r, c) == GradingResponse(r, GoodData(c))

\* saveStudyLog returned res.ok (App.tsx 441-451): the row was appended iff ok.
\* analyzeAudio does not read the result (634-637).
AnaSaved(r, ok) ==
    /\ ana[r].pc = "save"
    /\ ana' = [ana EXCEPT ![r].pc = "unit", ![r].saved = ok]
    /\ logRows' = IF ok THEN Append(logRows, [sid |-> r, audioLink |-> 0]) ELSE logRows
    /\ unitHistory' = <<[sid |-> r, audioLink |-> 0]>> \o unitHistory
    /\ UNCHANGED <<recVars, isAnalyzing, feedbackResult, alerts, jobVars, cacheVars, playVars, storeVars, textVars, unitVars>>

\* The finally block of processOnlyModelMedia (673-675).
JobFinally == syncingCorrectionSessionId' = 0

\* processOnlyModelMedia from its call to its first await (645-659).
ProcessOnlyModelMedia(s) ==
    IF Plain(ana[s].corr) = ""
      THEN /\ job' = [job EXCEPT ![s].pc = "done"]
           /\ JobFinally
           /\ UNCHANGED synthCalls
      ELSE /\ job' = [job EXCEPT ![s].pc = "synth"]
           /\ syncingCorrectionSessionId' = s
           /\ synthCalls' = Counted(Plain(ana[s].corr))

\* updateUnitStatus returned (637-642, App.tsx 573-587): the unit is marked
\* completed in the Progress sheet, the job is started, not awaited, and
\* the finally block clears isAnalyzing.
AnaUnitUpdated(r) ==
    /\ ana[r].pc = "unit"
    /\ ana' = [ana EXCEPT ![r].pc = "done"]
    /\ unitStatus' = "done"
    /\ units' = "done"
    /\ ProcessOnlyModelMedia(r)
    /\ isAnalyzing' = FALSE
    /\ UNCHANGED <<recVars, feedbackResult, unitHistory, alerts, logRows, updIssued,
                   localTtsCache, playVars, del, deletedFiles, textVars, unitVars>>

\* AnaThrows with a catch block that shows no notice.
AnaThrowsSilent(r) ==
    /\ ana[r].pc \in {"upload", "grade", "save", "unit"}
    /\ ana' = [ana EXCEPT ![r].pc = "failed", ![r].at = ana[r].pc]
    /\ isAnalyzing' = FALSE
    /\ UNCHANGED <<recVars, feedbackResult, unitHistory, alerts, logRows, jobVars, cacheVars,
                   playVars, storeVars, textVars, unitVars>>

\* An awaited call of analyzeAudio threw (network error, unparsable response):
\* catch and finally (642).
AnaThrows(r) ==
    /\ ana[r].pc \in {"upload", "grade", "save", "unit"}
    /\ ana' = [ana EXCEPT ![r].pc = "failed", ![r].at = ana[r].pc]
    /\ alerts' = alerts + 1
    /\ isAnalyzing' = FALSE
    /\ UNCHANGED <<recVars, feedbackResult, unitHistory, logRows, jobVars, cacheVars, playVars, storeVars, textVars, unitVars>>

----------------------------------------------------------------------------
\* SynthesisJob: processOnlyModelMedia after its first await

\* The synthesis response arrived (660-664): the audio is cached under the
\* flattened text and the asset upload is started.
JobSynthesized(s) ==
    /\ job[s].pc = "synth"
    /\ localTtsCache' = [localTtsCache EXCEPT ![Plain(ana[s].corr)] = Tts(Plain(ana[s].corr))]
    /\ job' = [job EXCEPT ![s].pc = "upload"]
    /\ UNCHANGED <<recVars, anaVars, syncingCorrectionSessionId, updIssued, synthCalls,
                   playVars, storeVars, textVars, unitVars>>

\* uploadAudioToDrive returned a link or null (664-667); updateStudyLog is
\* called with audioLink = modelDriveUrl || "".
JobUploaded(s, ok) ==
    /\ job[s].pc = "upload"
    /\ job' = [job EXCEPT ![s].pc = "lookup", ![s].url = IF ok THEN s ELSE 0]
    /\ updIssued' = updIssued \cup {s}
    /\ UNCHANGED <<recVars, anaVars, syncingCorrectionSessionId, cacheVars, playVars, storeVars, textVars, unitVars>>

\* rows.findIndex(r => r[0] === sessionId) of updateStudyLog and
\* deleteStudyLogBySessionId (App.tsx 460, 497); 0 stands for -1.
FindIndex(rows, s) ==
    IF \E i \in 1..Len(rows) : rows[i].sid = s
      THEN CHOOSE i \in 1..Len(rows) :
               /\ rows[i].sid = s
               /\ \A j \in 1..(i - 1) : rows[j].sid # s
      ELSE 0

\* The tail of processOnlyModelMedia once updateStudyLog has returned
\* (669-675): the displayed result and the listed entry take the link.
JobCompletes(s) ==
    /\ feedbackResult' = IF feedbackResult.sess # 0
                           THEN [feedbackResult EXCEPT !.audioLink = job[s].url]
                           ELSE feedbackResult
    /\ unitHistory' = [i \in 1..Len(unitHistory) |->
                          IF unitHistory[i].sid = s
                            THEN [sid |-> s, audioLink |-> job[s].url]
                            ELSE unitHistory[i]]
    /\ JobFinally

\* updateStudyLog read column A (App.tsx 455-462).  readOk = FALSE is a failed
\* read, which updateStudyLog catches.  With no row it returns false and the
\* job goes on; with a row it sends the PUT for that row number.
JobLookedUp(s, readOk) ==
    /\ job[s].pc = "lookup"
    /\ IF readOk /\ FindIndex(logRows, s) # 0
         THEN /\ job' = [job EXCEPT ![s].pc = "put", ![s].row = FindIndex(logRows, s)]
              /\ UNCHANGED <<feedbackResult, unitHistory, syncingCorrectionSessionId>>
         ELSE /\ job' = [job EXCEPT ![s].pc = "done"]
              /\ JobCompletes(s)
    /\ UNCHANGED <<recVars, isAnalyzing, ana, alerts, logRows, updIssued, cacheVars,
                   playVars, storeVars, textVars, unitVars>>

\* The sheet after values were PUT into columns B..M of row i (App.tsx
\* 463-470): the row at i takes them whatever its column A holds; below the
\* last row they land in a row whose column A is blank (sid 0).
RowWritten(i, url) ==
    IF i <= Len(logRows)
      THEN [logRows EXCEPT ![i].audioLink = url]
      ELSE Append(logRows, [sid |-> 0, audioLink |-> url])

\* The PUT of updateStudyLog ended (App.tsx 463-472): columns B..M of the row
\* looked up are overwritten unless the request failed; either way the job
\* goes on.
JobPut(s, putOk) ==
    /\ job[s].pc = "put"
    /\ logRows' = IF putOk THEN RowWritten(job[s].row, job[s].url) ELSE logRows
    /\ job' = [job EXCEPT ![s].pc = "done"]
    /\ JobCompletes(s)
    /\ UNCHANGED <<recVars, isAnalyzing, ana, alerts, updIssued, cacheVars, playVars, storeVars, textVars, unitVars>>

\* JobThrows with a catch block that does not release the marker.
JobThrowsNoRelease(s) ==
    /\ job[s].pc \in {"synth", "upload"}
    /\ job' = [job EXCEPT ![s].pc = "failed"]
    /\ UNCHANGED <<recVars, anaVars, syncingCorrectionSessionId, updIssued, cacheVars,
                   playVars, storeVars, textVars, unitVars>>

\* The synthesis call or the asset upload threw: catch and finally (671-675).
JobThrows(s) ==
    /\ job[s].pc \in {"synth", "upload"}
    /\ job' = [job EXCEPT ![s].pc = "failed"]
    /\ JobFinally
    /\ UNCHANGED <<recVars, anaVars, updIssued, cacheVars, playVars, storeVars, textVars, unitVars>>

----------------------------------------------------------------------------
\* PlaybackController

\* The playback requests of the component's call sites (1366, 1367, 1404,
\* 1422, 1550): the question, the displayed model answer with and without an
\* asset link, a listed model answer, and a raw recording (empty text).
Requests ==
    {[id |-> "q", text |-> "t1", url |-> ""]}
    \cup {[id |-> "correction", text |-> t, url |-> u] : t \in Texts, u \in {"", "model"}}
    \cup {[id |-> "model-1", text |-> t, url |-> "model"] : t \in Texts}
    \cup {[id |-> "raw-user", text |-> "", url |-> "raw"]}

\* Bytes fetched from the blob store: the asset, or the error body of a
\* non-2xx response, which fetch does not throw on (423-426).  even tells
\* whether the byte count is even, which Int16Array requires (55).
Asset(u) == [kind |-> "asset", of |-> u]
ErrBody(even) == [kind |-> IF even THEN "errEven" ELSE "errOdd", of |-> ""]

\* decodeRawPcm (54-60) throws on an odd number of bytes.
DecodesRaw(bytes) == bytes.kind # "errOdd"

\* The decoder test reduced to its file-name clause.
IsModelByFileName(id) == FALSE

\* The test choosing the raw-sample decoder (427).  Its third clause never
\* holds: asset links are Drive view links (App.tsx 428), which do not carry
\* the file name.
IsModelRequest(id) == id \in {"model-1", "correction"}

Audible(c) == call[c].src = "playing"

\* An invocation that has returned: its arguments and locals are dead.  Its
\* source lives on, with the id its onended handler was created for, until
\* the ended event; the invocation is over then, or at once without a source.
Returned(cl, src) ==
    IF src \in {"playing", "stopped"}
      THEN [NoCall EXCEPT !.pc = "returned", !.src = src, !.id = cl.id]
      ELSE NoCall

\* stopAllAudio (361-368), as the values it leaves: stop() ends the
\* referenced source if it still plays, cancel() ends the utterance.
StoppedCalls ==
    [c \in Calls |-> IF c = activeAudioSource /\ call[c].src = "playing"
                       THEN [call[c] EXCEPT !.src = "stopped"]
                       ELSE call[c]]

\* A request is pending while it waits for resume(), the polling interval,
\* the asset fetch, the decoder or the synthesis call.
Pending(cl) == cl.pc \in {"resume", "poll", "fetch", "decode", "synth"}

\* stopped tells of a pending request that the user has stopped playback
\* since and has not asked for playback again: set when stopAllAudio is the
\* whole command, cleared when the command goes on to play.
Marked(cs) == [c \in Calls |-> IF Pending(cs[c]) THEN [cs[c] EXCEPT !.stopped = TRUE] ELSE cs[c]]
Cleared(cs) == [c \in Calls |-> [cs[c] EXCEPT !.stopped = FALSE]]

\* speechSynthesis.cancel() (366, 463): the utterance being spoken stops; a
\* question utterance then gets the end or error event its handlers wait for
\* (386-387).
CancelledEvents == IF utt = "q" THEN Min(uttEvents + 1, MaxUttEvents) ELSE uttEvents

\* source.start() with the lines before it (397-403, 449-455): the new source
\* replaces the reference; the source referenced before is not stopped.
StartSource(c, cs) ==
    /\ ttsState' = [id |-> cs[c].id, status |-> "playing"]
    /\ call' = [cs EXCEPT ![c] = Returned(cs[c], "playing")]
    /\ activeAudioSource' = c

\* The catch block of playHighQualityAudio (456-459).
PlayCatch(c, cs) ==
    /\ ttsState' = NoTts
    /\ call' = [cs EXCEPT ![c] = Returned(cs[c], "none")]

\* Whether a request that missed the cache waits for the in-flight job (407).
WaitsForJob(id, url) ==
    id = "correction" /\ syncingCorrectionSessionId # 0 /\ url = ""

\* playHighQualityAudio from the cache lookup on (395-447), for call c of the
\* calls cs with act the referenced source.
Proceed(c, cs, act) ==
    LET k == Plain(cs[c].text) IN
    IF k # "" /\ localTtsCache[k] # Absent
      THEN \* cache hit; a decodeRawPcm failure here is outside the try block
           /\ IF DecodesRaw(localTtsCache[k])
                THEN StartSource(c, cs)
                ELSE /\ ttsState' = [id |-> cs[c].id, status |-> "playing"]
                     /\ call' = [cs EXCEPT ![c] = Returned(cs[c], "none")]
                     /\ activeAudioSource' = act
           /\ UNCHANGED synthCalls
      ELSE IF WaitsForJob(cs[c].id, cs[c].url)
        THEN /\ ttsState' = [id |-> cs[c].id, status |-> "loading"]
             /\ call' = [cs EXCEPT ![c].pc = "poll"]
             /\ activeAudioSource' = act
             /\ UNCHANGED synthCalls
      ELSE IF cs[c].url # ""
        THEN /\ ttsState' = [id |-> cs[c].id, status |-> "loading"]
             /\ call' = [cs EXCEPT ![c].pc = "fetch"]
             /\ activeAudioSource' = act
             /\ UNCHANGED synthCalls
      ELSE IF k = ""
        THEN /\ PlayCatch(c, cs)
             /\ activeAudioSource' = act
             /\ UNCHANGED synthCalls
      ELSE /\ ttsState' = [id |-> cs[c].id, status |-> "loading"]
           /\ call' = [cs EXCEPT ![c].pc = "synth"]
           /\ activeAudioSource' = act
           /\ synthCalls' = Counted(k)

\* playHighQualityAudio from its call to its first await (375-393).
\* suspended: the AudioContext is suspended, so resume() is awaited.
Invoke(c, cs, suspended) ==
    IF cs[c].sawSelf
      THEN \* toggle-to-stop (376)
           /\ call' = [cs EXCEPT ![c] = Returned(cs[c], "none")]
           /\ ttsState' = NoTts
           /\ activeAudioSource' = 0
           /\ utt' = "none"
           /\ uttEvents' = CancelledEvents
           /\ UNCHANGED synthCalls
      ELSE IF cs[c].id = "q" /\ Plain(cs[c].text) # ""
        THEN \* the on-device synthesizer speaks the question (381-390)
             /\ call' = [cs EXCEPT ![c] = Returned(cs[c], "none")]
             /\ ttsState' = [id |-> "q", status |-> "playing"]
             /\ activeAudioSource' = 0
             /\ utt' = "q"
             /\ uttEvents' = CancelledEvents
             /\ UNCHANGED synthCalls
      ELSE /\ utt' = "none"
           /\ uttEvents' = CancelledEvents
           /\ IF suspended
                THEN /\ call' = [cs EXCEPT ![c].pc = "resume"]
                     /\ ttsState' = NoTts
                     /\ activeAudioSource' = 0
                     /\ UNCHANGED synthCalls
                ELSE Proceed(c, cs, 0)

\* A click calls playHighQualityAudio(rq.text, rq.id, rq.url): it reads the
\* current ttsState.
PlayHighQualityAudio(c, rq, suspended) ==
    /\ call[c].pc = "none"
    /\ \A d \in Calls : d < c => call[d].pc # "none"
    /\ Invoke(c, [(IF ttsState.id = rq.id THEN Marked(StoppedCalls) ELSE Cleared(StoppedCalls))
                     EXCEPT ![c] = [NoCall EXCEPT !.id = rq.id, !.text = rq.text,
                                                           !.url = rq.url,
                                                           !.sawSelf = (ttsState.id = rq.id)]],
              suspended)
    /\ UNCHANGED <<recVars, anaVars, jobVars, storeVars, localTtsCache, textVars, unitVars>>

\* audioContext.resume() resolved (393).
ResumeDone(c) ==
    /\ call[c].pc = "resume"
    /\ Proceed(c, call, activeAudioSource)
    /\ UNCHANGED <<recVars, anaVars, jobVars, storeVars, localTtsCache, utt, uttEvents, textVars, unitVars>>

\* The polling interval of a waiting call fires with the key cached
\* (409-414): the call is made again from the closure of the waiting call,
\* which still reads the ttsState of its own render.
PollTick(c, suspended) ==
    /\ call[c].pc = "poll"
    /\ localTtsCache[Plain(call[c].text)] # Absent
    /\ Invoke(c, StoppedCalls, suspended)
    /\ UNCHANGED <<recVars, anaVars, jobVars, storeVars, localTtsCache, textVars, unitVars>>

\* The asset fetch returned its bytes (423-433): model-answer bytes are cached
\* and decoded as raw samples, other bytes go to decodeAudioData.
FetchDone(c, bytes) ==
    /\ call[c].pc = "fetch"
    /\ IF IsModelRequest(call[c].id)
         THEN /\ localTtsCache' = IF Plain(call[c].text) # ""
                                    THEN [localTtsCache EXCEPT ![Plain(call[c].text)] = bytes]
                                    ELSE localTtsCache
              /\ IF DecodesRaw(bytes)
                   THEN StartSource(c, call)
                   ELSE PlayCatch(c, call) /\ UNCHANGED activeAudioSource
         ELSE /\ call' = [call EXCEPT ![c].pc = "decode", ![c].bytes = bytes.kind]
              /\ UNCHANGED <<localTtsCache, ttsState, activeAudioSource>>
    /\ UNCHANGED <<recVars, anaVars, jobVars, storeVars, synthCalls, utt, uttEvents, textVars, unitVars>>

\* decodeAudioData resolved (432, 449-455); it rejects bytes that are no
\* audio container, which PlayThrows covers.
DecodeDone(c) ==
    /\ call[c].pc = "decode"
    /\ call[c].bytes = "asset"
    /\ StartSource(c, call)
    /\ UNCHANGED <<recVars, anaVars, jobVars, storeVars, cacheVars, utt, uttEvents, textVars, unitVars>>

\* The synthesis response arrived (445-455): cached, decoded and played.
SynthDone(c) ==
    /\ call[c].pc = "synth"
    /\ localTtsCache' = [localTtsCache EXCEPT ![Plain(call[c].text)] = Tts(Plain(call[c].text))]
    /\ StartSource(c, call)
    /\ UNCHANGED <<recVars, anaVars, jobVars, storeVars, synthCalls, utt, uttEvents, textVars, unitVars>>

\* An awaited call inside the try block threw (fetch, decodeAudioData, the
\* synthesis request): the catch block (456-459).
PlayThrows(c) ==
    /\ call[c].pc \in {"fetch", "decode", "synth"}
    /\ PlayCatch(c, call)
    /\ UNCHANGED <<recVars, anaVars, jobVars, storeVars, cacheVars, activeAudioSource, utt, uttEvents, textVars, unitVars>>

\* source.onended (401, 453): the ended event of a source, which the browser
\* fires both when the buffer ran out and after stop().
OnEnded(c) ==
    /\ call[c].src \in {"playing", "stopped"}
    /\ call' = [call EXCEPT ![c] = Returned(call[c], "ended")]
    /\ ttsState' = NoTts
    /\ UNCHANGED <<recVars, anaVars, jobVars, storeVars, cacheVars, activeAudioSource, utt, uttEvents, textVars, unitVars>>

\* utterance.onend / onerror (386-387): the question utterance finished, or
\* the event of a cancelled one is delivered.  An utterance of playNativeTts
\* has no handlers.
OnUtteranceEnd ==
    /\ \/ utt = "q" /\ utt' = "none" /\ ttsState' = NoTts /\ UNCHANGED uttEvents
       \/ utt = "native" /\ utt' = "none" /\ UNCHANGED <<ttsState, uttEvents>>
       \/ uttEvents > 0 /\ uttEvents' = uttEvents - 1 /\ ttsState' = NoTts /\ UNCHANGED utt
    /\ UNCHANGED <<recVars, anaVars, jobVars, storeVars, cacheVars, activeAudioSource, call, textVars, unitVars>>

\* stopAllAudio (361-368) when it is not followed by a new request.
StopAudio ==
    /\ call' = Marked(StoppedCalls)
    /\ activeAudioSource' = 0
    /\ utt' = "none"
    /\ uttEvents' = CancelledEvents
    /\ ttsState' = NoTts

\* stopAllAudio called on its own (680, 704, 721).
StopAllAudio ==
    /\ StopAudio
    /\ UNCHANGED <<recVars, anaVars, jobVars, storeVars, cacheVars, textVars, unitVars>>

\* playNativeTts (462-468).
PlayNativeTts ==
    /\ utt' = "native"
    /\ uttEvents' = CancelledEvents
    /\ UNCHANGED <<recVars, anaVars, jobVars, storeVars, cacheVars, ttsState, activeAudioSource, call, textVars, unitVars>>

----------------------------------------------------------------------------
\* The recording, grading and synthesis pipeline

RecordingNext ==
    \/ \E r \in Recs : StartRecording(r)
    \/ \E r \in Recs : MicGranted(r)
    \/ \E r \in Recs : MicDenied(r)
    \/ StopRecording
    \/ TogglePauseRecording
    \/ CancelRecording
    \/ \E r \in Recs : OnStop(r)

AnalysisNext ==
    \/ \E r \in Recs, ok \in BOOLEAN : AnaUploaded(r, ok)
    \/ \E r \in Recs, c \in Texts \cup {""} : AnaGraded(r, c)
    \/ \E r \in Recs, ok \in BOOLEAN : AnaSaved(r, ok)
    \/ \E r \in Recs : AnaUnitUpdated(r)
    \/ \E r \in Recs : AnaThrows(r)

JobNext ==
    \/ \E s \in Recs : JobSynthesized(s)
    \/ \E s \in Recs, ok \in BOOLEAN : JobUploaded(s, ok)
    \/ \E s \in Recs, ok \in BOOLEAN : JobLookedUp(s, ok)
    \/ \E s \in Recs, ok \in BOOLEAN : JobPut(s, ok)
    \/ \E s \in Recs : JobThrows(s)

Next == RecordingNext \/ AnalysisNext \/ JobNext

Spec == Init /\ [][Next]_vars

----------------------------------------------------------------------------
\* Deletion of a session: handleDeleteLog

\* The listed entries of session r.
Listed(r) == {i \in 1..Len(unitHistory) : unitHistory[i].sid = r}

\* The assets of session s in the blob store: the raw clip analyzeAudio
\* uploaded and the model audio the job uploaded, unless deleted.
RawExists(s) == ana[s].raw /\ <<"raw", s>> \notin deletedFiles
ModelExists(s) == job[s].url # 0 /\ <<"model", s>> \notin deletedFiles

\* The await handleDeleteLog reaches next, given the links of the entry
\* clicked (761-763).
DelAfterModel(d) == IF d.raw THEN "raw" ELSE "lookup"
DelFirst(d) == IF d.link # 0 THEN "model" ELSE DelAfterModel(d)

\* handleDeleteLog(h) for the listed entry h of session s, confirmed, up to
\* its first await (757-761).  One deletion is followed per session.
HandleDeleteLog(s) ==
    /\ del[s].pc = "none"
    /\ Listed(s) # {}
    /\ LET h == unitHistory[CHOOSE i \in Listed(s) : \A j \in Listed(s) : i <= j]
           d == [NoDel EXCEPT !.link = h.audioLink, !.raw = ana[s].raw, !.hist = unitHistory]
       IN del' = [del EXCEPT ![s] = [d EXCEPT !.pc = DelFirst(d)]]
    /\ UNCHANGED <<recVars, anaVars, jobVars, cacheVars, playVars, unitStatus, units, deletedFiles, textVars, unitVars>>

\* deleteFileFromDrive(log.audioLink) returned (761, App.tsx 431-439): the
\* asset is gone iff the response was 204; the result is not read.
DelModelDone(s, ok) ==
    /\ del[s].pc = "model"
    /\ deletedFiles' = IF ok THEN deletedFiles \cup {<<"model", del[s].link>>} ELSE deletedFiles
    /\ del' = [del EXCEPT ![s].pc = DelAfterModel(del[s]), ![s].assetsOk = @ /\ ok]
    /\ UNCHANGED <<recVars, anaVars, jobVars, cacheVars, playVars, unitStatus, units, textVars, unitVars>>

\* deleteFileFromDrive(log.rawAudioLink) returned (762).
DelRawDone(s, ok) ==
    /\ del[s].pc = "raw"
    /\ deletedFiles' = IF ok THEN deletedFiles \cup {<<"raw", s>>} ELSE deletedFiles
    /\ del' = [del EXCEPT ![s].pc = "lookup", ![s].assetsOk = @ /\ ok]
    /\ UNCHANGED <<recVars, anaVars, jobVars, cacheVars, playVars, unitStatus, units, textVars, unitVars>>

\* deleteStudyLogBySessionId read column A (App.tsx 492-497): without the
\* row, or when the read failed, it returns false and handleDeleteLog ends.
DelLookedUp(s, readOk) ==
    /\ del[s].pc = "lookup"
    /\ del' = IF readOk /\ FindIndex(logRows, s) # 0
                THEN [del EXCEPT ![s].pc = "batch", ![s].row = FindIndex(logRows, s)]
                ELSE [del EXCEPT ![s].pc = "kept"]
    /\ UNCHANGED <<recVars, anaVars, jobVars, cacheVars, playVars, unitStatus, units, deletedFiles, textVars, unitVars>>

\* logRows without the row at index i.
WithoutRow(i) == [j \in 1..(Len(logRows) - 1) |-> IF j < i THEN logRows[j] ELSE logRows[j + 1]]

\* The entries handleDeleteLog keeps (765): those of the unitHistory it was
\* rendered with.
RemainingLogs(s) == SelectSeq(del[s].hist, LAMBDA h : h.sid # s)

\* The batchUpdate of deleteStudyLogBySessionId returned (App.tsx 498-514,
\* Dashboard.tsx 763-772): the row at the index looked up is removed iff the
\* request succeeded; then the list is replaced and, when it is empty, the
\* unit reset is sent.
DelBatched(s, ok) ==
    /\ del[s].pc = "batch"
    /\ IF ok
         THEN /\ logRows' = IF del[s].row <= Len(logRows) THEN WithoutRow(del[s].row) ELSE logRows
              /\ unitHistory' = RemainingLogs(s)
              /\ del' = [del EXCEPT ![s].pc = IF RemainingLogs(s) = <<>> THEN "unit" ELSE "done"]
         ELSE /\ del' = [del EXCEPT ![s].pc = "kept"]
              /\ UNCHANGED <<logRows, unitHistory>>
    /\ UNCHANGED <<recVars, isAnalyzing, ana, feedbackResult, alerts, jobVars, cacheVars, playVars,
                   unitStatus, units, deletedFiles, textVars, unitVars>>

\* updateUnitStatus(..., "미완료", "-", "-") returned (767-769, App.tsx
\* 573-587): the cells are reset iff the PUT succeeded, its response is not
\* read; the in-memory unit is reset.
DelUnitReset(s, ok) ==
    /\ del[s].pc = "unit"
    /\ unitStatus' = IF ok THEN "todo" ELSE unitStatus
    /\ units' = "todo"
    /\ del' = [del EXCEPT ![s].pc = "done"]
    /\ UNCHANGED <<recVars, anaVars, jobVars, cacheVars, playVars, deletedFiles, textVars, unitVars>>

\* An awaited call of handleDeleteLog threw (a deleteFileFromDrive or
\* updateUnitStatus fetch rejected): there is no catch block, only the
\* finally of line 773.
DelThrows(s) ==
    /\ del[s].pc \in {"model", "raw", "unit"}
    /\ del' = [del EXCEPT ![s].pc = "failed"]
    /\ UNCHANGED <<recVars, anaVars, jobVars, cacheVars, playVars, unitStatus, units, deletedFiles, textVars, unitVars>>

DeleteNext ==
    \/ \E s \in Recs : HandleDeleteLog(s)
    \/ \E s \in Recs, ok \in BOOLEAN : DelModelDone(s, ok)
    \/ \E s \in Recs, ok \in BOOLEAN : DelRawDone(s, ok)
    \/ \E s \in Recs, ok \in BOOLEAN : DelLookedUp(s, ok)
    \/ \E s \in Recs, ok \in BOOLEAN : DelBatched(s, ok)
    \/ \E s \in Recs, ok \in BOOLEAN : DelUnitReset(s, ok)
    \/ \E s \in Recs : DelThrows(s)

----------------------------------------------------------------------------
\* Playback, with a synthesis job that may be in flight

\* The state in which the first session has just been graded with correction
\* t: its job has sent the synthesis request and holds the marker.
JustGraded(t) ==
    /\ rec = [r \in Recs |-> IF r = 1 THEN [NoRec EXCEPT !.st = "inactive", !.sawAnalyzing = FALSE, !.unit = 1,
                                            !.stream = "released", !.cancelled = FALSE,
                                            !.out = "clip"]
                                      ELSE NoRec]
    /\ mediaRecorderRef = 1
    /\ isCancellingRef = FALSE
    /\ isRecording = FALSE
    /\ isPaused = FALSE
    /\ recordedBlob = 1
    /\ isAnalyzing = FALSE
    /\ ana = [r \in Recs |-> IF r = 1 THEN [NoAna EXCEPT !.pc = "done", !.raw = TRUE,
                                                         !.corr = t, !.saved = TRUE,
                                                         !.data = GoodData(t),
                                                         !.result = Result(1, GoodData(t))]
                                      ELSE NoAna]
    /\ feedbackResult = [sess |-> 1, audioLink |-> 0]
    /\ unitHistory = <<[sid |-> 1, audioLink |-> 0]>>
    /\ alerts = 0
    /\ logRows = <<[sid |-> 1, audioLink |-> 0]>>
    /\ job = [r \in Recs |-> IF r = 1 THEN [NoJob EXCEPT !.pc = "synth"] ELSE NoJob]
    /\ syncingCorrectionSessionId = 1
    /\ localTtsCache = [x \in Texts |-> Absent]
    /\ synthCalls = [x \in Texts |-> IF x = t THEN 1 ELSE 0]
    /\ updIssued = {}
    /\ ttsState = NoTts
    /\ activeAudioSource = 0
    /\ call = [c \in Calls |-> NoCall]
    /\ utt = "none"
    /\ uttEvents = 0
    /\ unitStatus = "done"
    /\ units = "done"
    /\ del = [s \in Recs |-> NoDel]
    /\ deletedFiles = {}
    /\ NoTexts
    /\ UnitShown

\* Playback starts with nothing graded yet, or right after the first grading.
InitPlay == Init \/ \E t \in Texts : JustGraded(t)

PlayNext ==
    \/ \E c \in Calls, rq \in Requests, su \in BOOLEAN : PlayHighQualityAudio(c, rq, su)
    \/ \E c \in Calls : ResumeDone(c)
    \/ \E c \in Calls : FetchDone(c, Asset("a"))
    \/ \E c \in Calls : DecodeDone(c)
    \/ \E c \in Calls : SynthDone(c)
    \/ \E c \in Calls : PlayThrows(c)
    \/ \E c \in Calls : OnEnded(c)
    \/ OnUtteranceEnd
    \/ StopAllAudio
    \/ PlayNativeTts

\* Playback alone: no session was graded, so no job holds the marker.
SpecPlay == Init /\ [][PlayNext]_vars

\* Playback while the job of the first session runs.
PollNext == \E c \in Calls, su \in BOOLEAN : PollTick(c, su)

NextPlayJob == PlayNext \/ PollNext \/ JobNext

SpecPlayJob == InitPlay /\ [][NextPlayJob]_vars

\* The model-answer button of a result without asset link, while the job of
\* the first session runs; timers fire and network calls end one way or the
\* other, clicks need not happen.
CorrectionRequests == {[id |-> "correction", text |-> t, url |-> ""] : t \in Texts}

PollPlayNext ==
    \/ \E c \in Calls, rq \in CorrectionRequests, su \in BOOLEAN : PlayHighQualityAudio(c, rq, su)
    \/ \E c \in Calls : ResumeDone(c)
    \/ \E c \in Calls, su \in BOOLEAN : PollTick(c, su)
    \/ \E c \in Calls : SynthDone(c)
    \/ \E c \in Calls : PlayThrows(c)
    \/ \E c \in Calls : OnEnded(c)
    \/ StopAllAudio

NextPoll == PollPlayNext \/ JobNext

\* Requests for the displayed model answer while the job may be running.
SpecPoll == InitPlay /\ [][NextPoll]_vars

\* What happens without the user: completions, timer ticks and media events.
PollCompletes(c) ==
    \/ ResumeDone(c)
    \/ \E su \in BOOLEAN : PollTick(c, su)
    \/ SynthDone(c)
    \/ PlayThrows(c)
    \/ OnEnded(c)

SpecPollFair ==
    /\ InitPlay
    /\ [][NextPoll]_vars
    /\ \A c \in Calls : WF_vars(PollCompletes(c))
    /\ WF_vars(JobNext)

\* Playback of stored assets, whose fetch may return the asset or the body
\* of an error response.
\* The raw recording of a listed session (1366).
HistoryRawRequest == [id |-> "user-1", text |-> "", url |-> "raw"]

AssetRequests == {rq \in Requests : rq.url # ""} \cup {HistoryRawRequest}

FetchedBytes == {Asset("a"), ErrBody(TRUE), ErrBody(FALSE)}

FetchPlayNext ==
    \/ \E c \in Calls, rq \in AssetRequests, su \in BOOLEAN : PlayHighQualityAudio(c, rq, su)
    \/ \E c \in Calls : ResumeDone(c)
    \/ \E c \in Calls, b \in FetchedBytes : FetchDone(c, b)
    \/ \E c \in Calls : DecodeDone(c)
    \/ \E c \in Calls : PlayThrows(c)
    \/ \E c \in Calls : OnEnded(c)
    \/ StopAllAudio

SpecFetch == Init /\ [][FetchPlayNext]_vars

\* Grading of one finalized clip whose raw upload has returned, with every
\* shape of response.
InitGrade ==
    /\ mediaRecorderRef = 1
    /\ isCancellingRef = FALSE
    /\ isRecording = FALSE
    /\ isPaused = FALSE
    /\ rec = [r \in Recs |-> IF r = 1 THEN [NoRec EXCEPT !.st = "inactive", !.stream = "released", !.unit = 1,
                                                         !.out = "clip"]
                                      ELSE NoRec]
    /\ recordedBlob = 1
    /\ isAnalyzing = TRUE
    /\ ana = [r \in Recs |-> IF r = 1 THEN [NoAna EXCEPT !.pc = "grade", !.raw = TRUE] ELSE NoAna]
    /\ feedbackResult = NoResult
    /\ unitHistory = <<>>
    /\ alerts = 0
    /\ logRows = <<>>
    /\ job = [r \in Recs |-> NoJob]
    /\ syncingCorrectionSessionId = 0
    /\ localTtsCache = [t \in Texts |-> Absent]
    /\ synthCalls = [t \in Texts |-> 0]
    /\ updIssued = {}
    /\ ttsState = NoTts
    /\ activeAudioSource = 0
    /\ call = [c \in Calls |-> NoCall]
    /\ utt = "none"
    /\ uttEvents = 0
    /\ unitStatus = "todo"
    /\ units = "todo"
    /\ del = [s \in Recs |-> NoDel]
    /\ deletedFiles = {}
    /\ NoTexts
    /\ UnitShown

GradeNext ==
    \/ \E r \in Recs, d \in GradeData : GradingResponse(r, d)
    \/ \E r \in Recs, ok \in BOOLEAN : AnaSaved(r, ok)
    \/ \E r \in Recs : AnaUnitUpdated(r)
    \/ \E r \in Recs : AnaThrows(r)
    \/ JobNext

SpecGrade == InitGrade /\ [][GradeNext]_vars

\* The model-answer button of the displayed result (1422): it is rendered
\* with the result and passes the result's correction and asset link.
DisplayedCorrection ==
    [id |-> "correction", text |-> ana[feedbackResult.sess].corr,
     url |-> IF feedbackResult.audioLink = 0 THEN "" ELSE "model"]

CorrectionClicked(c, suspended) ==
    /\ feedbackResult.sess # 0
    /\ PlayHighQualityAudio(c, DisplayedCorrection, suspended)

ShownNext ==
    \/ \E r \in Recs, t \in Texts : AnaGraded(r, t)
    \/ \E r \in Recs, ok \in BOOLEAN : AnaSaved(r, ok)
    \/ \E r \in Recs : AnaUnitUpdated(r)
    \/ \E r \in Recs : AnaThrows(r)
    \/ JobNext
    \/ \E c \in Calls, su \in BOOLEAN : CorrectionClicked(c, su)
    \/ \E c \in Calls : ResumeDone(c)
    \/ \E c \in Calls, su \in BOOLEAN : PollTick(c, su)
    \/ \E c \in Calls : SynthDone(c)
    \/ \E c \in Calls : PlayThrows(c)
    \/ \E c \in Calls : OnEnded(c)
    \/ StopAllAudio

\* One grading attempt from its grading response on, with the model-answer
\* button of the result it displays.
SpecShown == InitGrade /\ [][ShownNext]_vars

\* The pipeline when every external call succeeds: the microphone is
\* granted, uploads return links, the grading response is the one asked for
\* with a non-empty correction, the log store accepts every request.  The
\* handlers are called from the buttons: the record button is rendered while
\* nothing records and no analysis runs (1565, 1610), the stop, pause and
\* cancel buttons while isRecording (1610-1640).
RecordClicked(r) == ~isAnalyzing /\ ~isRecording /\ StartRecording(r)
StopClicked == isRecording /\ StopRecording
PauseClicked == isRecording /\ TogglePauseRecording
CancelClicked == isRecording /\ CancelRecording

OkUserNext ==
    \/ \E r \in Recs : RecordClicked(r)
    \/ StopClicked
    \/ PauseClicked
    \/ CancelClicked

OkCompletes ==
    \/ \E r \in Recs : MicGranted(r)
    \/ \E r \in Recs : OnStop(r)
    \/ \E r \in Recs : AnaUploaded(r, TRUE)
    \/ \E r \in Recs, c \in Texts : AnaGraded(r, c)
    \/ \E r \in Recs : AnaSaved(r, TRUE)
    \/ \E r \in Recs : AnaUnitUpdated(r)
    \/ \E s \in Recs : JobSynthesized(s)
    \/ \E s \in Recs : JobUploaded(s, TRUE)
    \/ \E s \in Recs : JobLookedUp(s, TRUE)
    \/ \E s \in Recs : JobPut(s, TRUE)

OkNext == OkUserNext \/ OkCompletes

\* Events are delivered and calls return; clicks need not happen.
SpecOkFair == Init /\ [][OkNext]_vars /\ WF_vars(OkCompletes)

\* Deletion of the first session, requested while its job runs or after it.
InitDelete == \E t \in Texts : JustGraded(t)

NextDelete == DeleteNext \/ JobNext

SpecDelete == InitDelete /\ [][NextDelete]_vars

\* The state in which two sessions have been graded one after the other,
\* with corrections t1 and t2: the job of the first has ended and stored its
\* link, the job of the second has sent the synthesis request.
BothGraded ==
    /\ rec = [r \in Recs |-> [NoRec EXCEPT !.st = "inactive", !.sawAnalyzing = FALSE, !.unit = 1,
                              !.stream = "released", !.cancelled = FALSE, !.out = "clip"]]
    /\ mediaRecorderRef = 2
    /\ isCancellingRef = FALSE
    /\ isRecording = FALSE
    /\ isPaused = FALSE
    /\ recordedBlob = 2
    /\ isAnalyzing = FALSE
    /\ ana = [r \in Recs |-> [NoAna EXCEPT !.pc = "done", !.raw = TRUE,
                                           !.corr = IF r = 1 THEN "t1" ELSE "t2",
                                           !.saved = TRUE,
                                           !.data = GoodData(IF r = 1 THEN "t1" ELSE "t2"),
                                           !.result = Result(r, GoodData(IF r = 1 THEN "t1"
                                                                                ELSE "t2"))]]
    /\ feedbackResult = [sess |-> 2, audioLink |-> 0]
    /\ unitHistory = <<[sid |-> 2, audioLink |-> 0], [sid |-> 1, audioLink |-> 1]>>
    /\ alerts = 0
    /\ logRows = <<[sid |-> 1, audioLink |-> 1], [sid |-> 2, audioLink |-> 0]>>
    /\ job = [r \in Recs |-> IF r = 1 THEN [pc |-> "done", url |-> 1, row |-> 1]
                                      ELSE [NoJob EXCEPT !.pc = "synth"]]
    /\ syncingCorrectionSessionId = 2
    /\ localTtsCache = [x \in Texts |-> IF x = "t1" THEN Tts("t1") ELSE Absent]
    /\ synthCalls = [x \in Texts |-> 1]
    /\ updIssued = {1}
    /\ ttsState = NoTts
    /\ activeAudioSource = 0
    /\ call = [c \in Calls |-> NoCall]
    /\ utt = "none"
    /\ uttEvents = 0
    /\ unitStatus = "done"
    /\ units = "done"
    /\ del = [s \in Recs |-> NoDel]
    /\ deletedFiles = {}
    /\ NoTexts
    /\ UnitShown

\* Deletions of two listed sessions, requested in any order and overlapping.
SpecDeleteTwo == BothGraded /\ [][NextDelete]_vars

----------------------------------------------------------------------------
\* Three-part texts: cleanAiText, the delimiter join of analyzeAudio and the
\* split of restudyLog.  A text is a sequence of characters.

\* A letter, a blank, the two brackets and a markup character.
Chars == {"a", " ", "[", "]", "*"}

Strs == UNION {[1..n -> Chars] : n \in 0..MaxLen}

\* A delimiter made of a character that cleanAiText keeps.
LetterDelimiter == <<"a">>

\* PART_DELIMITER (28).
PART_DELIMITER == <<" ", "[", "P", "A", "R", "T", "]", " ">>

\* text.replace(/[*_'#]/g, '') with the backquote for ' (51); the backquote
\* character is written "bq".
StripMarkup(text) == SelectSeq(text, LAMBDA ch : ch \notin {"*", "_", "bq", "#"})

\* text.replace(/\[|\]/g, '') (51).
StripBrackets(text) == SelectSeq(text, LAMBDA ch : ch \notin {"[", "]"})

\* text.replace(/\s+/g, " ") (51).
RECURSIVE CollapseBlanks(_)
CollapseBlanks(text) ==
    IF Len(text) <= 1 THEN text
    ELSE IF text[1] = " " /\ text[2] = " " THEN CollapseBlanks(Tail(text))
    ELSE <<text[1]>> \o CollapseBlanks(Tail(text))

\* text.trim() (51).
RECURSIVE Trim(_)
Trim(text) ==
    IF text = <<>> THEN text
    ELSE IF text[1] = " " THEN Trim(Tail(text))
    ELSE IF text[Len(text)] = " " THEN Trim(SubSeq(text, 1, Len(text) - 1))
    ELSE text

\* cleanAiText (50-52).
cleanAiText(text) ==
    IF text = <<>> THEN <<>> ELSE Trim(CollapseBlanks(StripBrackets(StripMarkup(text))))

\* s.includes(d) and the position of the first occurrence of d in s, 0 when
\* there is none.
OccursAt(s, d, i) == i + Len(d) - 1 <= Len(s) /\ SubSeq(s, i, i + Len(d) - 1) = d
IndexOf(s, d) ==
    IF \E i \in 1..Len(s) : OccursAt(s, d, i)
      THEN CHOOSE i \in 1..Len(s) : OccursAt(s, d, i) /\ \A j \in 1..(i - 1) : ~OccursAt(s, d, j)
      ELSE 0
Includes(s, d) == IndexOf(s, d) # 0

\* s.split(d) for a non-empty d.
RECURSIVE Split(_, _)
Split(s, d) ==
    IF IndexOf(s, d) = 0 THEN <<s>>
    ELSE <<SubSeq(s, 1, IndexOf(s, d) - 1)>>
         \o Split(SubSeq(s, IndexOf(s, d) + Len(d), Len(s)), d)

\* The flattened text of three cleaned parts (605-606).
Flattened(p) ==
    cleanAiText(p.intro) \o PART_DELIMITER \o cleanAiText(p.body)
        \o PART_DELIMITER \o cleanAiText(p.conclusion)

\* parts[k] || "" (732, 738).
PartOr(parts, k) == IF k <= Len(parts) THEN parts[k] ELSE <<>>

\* The parts restudyLog builds from a stored text (729-739): undefined
\* when the text is empty or has no delimiter.
RestudyParts(text) ==
    IF text # <<>> /\ Includes(text, PART_DELIMITER)
      THEN [st |-> "parts",
            intro |-> PartOr(Split(text, PART_DELIMITER), 1),
            body |-> PartOr(Split(text, PART_DELIMITER), 2),
            conclusion |-> PartOr(Split(text, PART_DELIMITER), 3),
            count |-> Len(Split(text, PART_DELIMITER))]
      ELSE [NotRestudied EXCEPT !.st = "undefined"]

Frame == UNCHANGED <<recVars, anaVars, jobVars, cacheVars, playVars, storeVars>>

\* analyzeAudio flattens the parts of the grading response (595-606).
FlattenParts ==
    /\ correction = <<>>
    /\ correction' = Flattened(dataParts)
    /\ UNCHANGED <<dataParts, restudyParts, selectedDirection, unitVars>>
    /\ Frame

\* restudyLog opens the stored session (720-755).
RestudyLog ==
    /\ correction # <<>>
    /\ restudyParts.st = "none"
    /\ restudyParts' = RestudyParts(correction)
    /\ UNCHANGED <<dataParts, correction, selectedDirection, unitVars>>
    /\ Frame

\* Any three parts come back from the grading backend.
InitText ==
    /\ dataParts \in [intro : Strs, body : Strs, conclusion : Strs]
    /\ correction = <<>>
    /\ restudyParts = NotRestudied
    /\ selectedDirection = "none"
    /\ Mounted

TextNext == FlattenParts \/ RestudyLog

SpecText == InitText /\ [][TextNext]_vars

----------------------------------------------------------------------------
\* Style Directions: sessions recorded one after the other, each under the
\* direction selected when its recording was started

\* toggleDirection (875-877): a direction button is clicked.
toggleDirection(dir) ==
    /\ selectedDirection' = IF selectedDirection = dir THEN "none" ELSE dir
    /\ UNCHANGED <<recVars, anaVars, jobVars, cacheVars, playVars, storeVars,
                   dataParts, correction, restudyParts, unitVars>>

\* Grading responses that differ in the objective fields.
StyleResponses ==
    {GoodData("t1"),
     [GoodData("t1") EXCEPT !.level = ""],
     [GoodData("t1") EXCEPT !.level = "Advanced", !.transcript = ""]}

StyleNext ==
    \/ \E dir \in Directions \ {"none"} : toggleDirection(dir)
    \/ \E r \in Recs : RecordClicked(r)
    \/ \E r \in Recs : MicGranted(r)
    \/ StopClicked
    \/ \E r \in Recs : OnStop(r)
    \/ \E r \in Recs : AnaUploaded(r, TRUE)
    \/ \E r \in Recs, d \in StyleResponses : GradingResponse(r, d)
    \/ \E r \in Recs : AnaSaved(r, TRUE)
    \/ \E r \in Recs : AnaUnitUpdated(r)

SpecStyle == Init /\ [][StyleNext]_vars

----------------------------------------------------------------------------
\* Unit selection: selectUnit while sessions are recorded and graded

\* The unit named in the log row of session s (621): the unit shown in the
\* render whose analyzeAudio wrote it.
UnitOf(s) == rec[s].unit

Reverse(q) == [i \in 1..Len(q) |-> q[Len(q) + 1 - i]]

\* logs.filter(...).reverse() of selectUnit (341-346): the rows naming unit u,
\* newest first.  A row without session id names no unit.
Filtered(u) == Reverse(SelectSeq(logRows, LAMBDA row : row.sid # 0 /\ UnitOf(row.sid) = u))

\* selectUnit(u) up to its await of fetchStudyLogs (313-340).
SelectUnit(k, u) ==
    /\ sel[k].pc = "none"
    /\ \A j \in Sels : j < k => sel[j].pc # "none"
    /\ StopAudio
    /\ selectedUnitIdx' = u
    /\ sel' = [sel EXCEPT ![k] = [pc |-> "fetch", unit |-> u]]
    /\ UNCHANGED <<recVars, anaVars, jobVars, cacheVars, storeVars, textVars>>

\* fetchStudyLogs returned (340-347, App.tsx 475-488): the rows read, or no
\* rows when the request failed, filtered for the unit of the call.
LogsFetched(k, ok) ==
    /\ sel[k].pc = "fetch"
    /\ unitHistory' = IF ok THEN Filtered(sel[k].unit) ELSE <<>>
    /\ sel' = [sel EXCEPT ![k].pc = "done"]
    /\ UNCHANGED <<recVars, isAnalyzing, ana, feedbackResult, alerts, logRows, jobVars,
                   cacheVars, playVars, storeVars, textVars, selectedUnitIdx>>

UnitNext ==
    \/ \E k \in Sels, u \in Units : SelectUnit(k, u)
    \/ \E k \in Sels, ok \in BOOLEAN : LogsFetched(k, ok)

\* Sessions recorded from the buttons with every external call succeeding,
\* and units selected meanwhile.
SpecUnit == Init /\ [][OkNext \/ UnitNext]_vars

----------------------------------------------------------------------------
\* Properties

\* Grading attempts and synthesis jobs that have started and not ended.
AnalysesInFlight == {r \in Recs : ana[r].pc \in {"upload", "grade", "save", "unit"}}
JobsInFlight == {s \in Recs : job[s].pc \in {"synth", "upload", "lookup", "put"}}

\* The audio link the log store holds for session s; 0 when it holds none.
RowLink(s) == IF FindIndex(logRows, s) # 0 THEN logRows[FindIndex(logRows, s)].audioLink ELSE 0

\* C1: at any instant at most one audio source is audible: never two buffer
\* sources that were started and have neither ended nor been stopped, nor such
\* a source together with an utterance of the on-device synthesizer.
C1_AtMostOneAudible ==
    Cardinality({c \in Calls : Audible(c)}) + (IF utt # "none" THEN 1 ELSE 0) <= 1

\* C2: at most one synthesis job is in flight at any time.
C2_AtMostOneJob == Cardinality(JobsInFlight) <= 1

\* C3: at most one grading attempt is in flight at a time: an analyzeAudio
\* call made while an earlier one has not finished is rejected.
C3_AtMostOneAnalysis == Cardinality(AnalysesInFlight) <= 1

\* C4: a recording that cancelRecording stopped never emits a finalized clip:
\* recordedBlob is not set from it and analyzeAudio is not called with it.
C4_CancelledNeverEmits ==
    \A r \in Recs : rec[r].cancelled =>
        /\ rec[r].out # "clip"
        /\ recordedBlob # r
        /\ ana[r].pc = "none"

\* C5: two playback requests for the same uncached text that overlap in time
\* never both have a request at the speech-synthesis backend.
C5_OneSynthesisPerText ==
    \A c, d \in Calls :
        (c # d /\ call[c].pc = "synth" /\ call[d].pc = "synth")
            => call[c].text # call[d].text

\* C6: until the job of session s has synthesized and uploaded its audio, the
\* model-audio link of s is empty in the log row, in unitHistory and in the
\* displayed result.
C6_LinkEmptyUntilJobDone ==
    \A s \in Recs : job[s].url = 0 =>
        /\ RowLink(s) = 0
        /\ \A i \in 1..Len(unitHistory) : unitHistory[i].sid = s => unitHistory[i].audioLink = 0
        /\ feedbackResult.sess = s => feedbackResult.audioLink = 0

\* C7: the job calls updateStudyLog only for a session whose row saveStudyLog
\* has appended to the log store.
C7_UpdateOnlyAfterAppend == \A s \in updIssued : ana[s].saved

\* C8: once no processOnlyModelMedia invocation is running, the in-flight
\* marker is null, whatever the outcomes of the invocations were.
C8_MarkerReleased == (JobsInFlight = {}) => syncingCorrectionSessionId = 0

\* A job has failed after another one completed, no job is running and the
\* marker is null.
C8_Witness ==
    /\ \E s \in Recs : job[s].pc = "failed"
    /\ \E s \in Recs : job[s].pc = "done" /\ job[s].url # 0
    /\ JobsInFlight = {}
    /\ syncingCorrectionSessionId = 0

\* C9: playHighQualityAudio called with the id of the source that is sounding
\* (the referenced source, still playing) stops it and starts nothing.
C9_ToggleStops ==
    [][\A c \in Calls, rq \in Requests, su \in BOOLEAN :
          (/\ PlayHighQualityAudio(c, rq, su)
           /\ activeAudioSource # 0
           /\ Audible(activeAudioSource)
           /\ call[activeAudioSource].id = rq.id)
          => (/\ call'[c] = NoCall
              /\ \A d \in Calls : call'[d].src # "playing")]_vars

\* C10: ttsState matches the active source: while the referenced source is
\* playing, ttsState carries its id, and while ttsState is null no referenced
\* source is playing and the question is not being spoken.
C10_StatusMatchesSource ==
    /\ (activeAudioSource # 0 /\ Audible(activeAudioSource))
           => ttsState.id = call[activeAudioSource].id
    /\ ttsState = NoTts
           => (~(activeAudioSource # 0 /\ Audible(activeAudioSource)) /\ utt # "q")

\* C11: a model-answer request that misses the cache and carries no asset
\* link starts the polling wait only while a synthesis job for that same text
\* is in flight.
C11_PollsForOwnJob ==
    [][\A c \in Calls :
          (call[c].pc # "poll" /\ call'[c].pc = "poll")
          => \E s \in JobsInFlight : Plain(ana[s].corr) = Plain(call'[c].text)]_vars

\* C12: a playback request that is loading (waiting for resume, polling for
\* the job, or waiting for the synthesis response) eventually stops loading:
\* it starts playing or ends with the status reset.
C12_LoadingEnds ==
    \A c \in Calls :
        (call[c].pc \in {"resume", "poll", "synth"}) ~> (call[c].pc \notin {"resume", "poll", "synth"})

\* C13: a playback attempt that ends without having started a source (the
\* fetch, the decoding or the synthesis call failed, on the cache-hit branch
\* too, or there was nothing to play) leaves ttsState reset to null.
C13_FailureResets ==
    [][\A c \in Calls :
          (/\ \/ call[c].pc \in {"resume", "poll", "fetch", "decode", "synth"}
              \/ \E rq \in Requests, su \in BOOLEAN :
                     PlayHighQualityAudio(c, rq, su) /\ rq.id # "q"
           /\ call'[c] = NoCall)
          => ttsState' = NoTts]_vars

\* C14: when the grading call fails or its response cannot be read, the
\* attempt ends there: one failure notice is shown and isAnalyzing is cleared
\* in that step, the unit status and the log rows stay as they are, and the
\* failed attempt has no log row, no listed entry and no synthesis job, and
\* takes no further step.
C14_GradingFailureTerminal ==
    [][\A r \in Recs :
          (ana'[r].pc = "failed" /\ ana'[r].at = "grade")
          => /\ FindIndex(logRows', r) = 0
             /\ \A i \in 1..Len(unitHistory') : unitHistory'[i].sid # r
             /\ job'[r] = NoJob
             /\ ana[r].pc \in {"grade", "failed"}
             /\ ana[r].pc = "grade"
                   => /\ alerts' = alerts + 1
                      /\ isAnalyzing' = FALSE
                      /\ unitStatus' = unitStatus
                      /\ logRows' = logRows
             /\ ana[r].pc = "failed" => ana'[r] = ana[r]]_vars

\* A grading call has failed after the raw clip was uploaded; the notice was
\* shown and the busy flag is cleared.
C14_Witness ==
    \E r \in Recs :
        /\ ana[r].pc = "failed" /\ ana[r].at = "grade" /\ ana[r].raw
        /\ alerts > 0
        /\ ~isAnalyzing

\* The response shape the grading prompt asks for: every field there and the
\* level on the scale.
Conforms(d) ==
    /\ d.transcript # ""
    /\ d.level \in Scale
    /\ d.feedback # ""
    /\ d.correction \in Texts
    /\ d.translation = "meaning"

\* C15: a grading response that lacks a required field or whose level is off
\* the scale creates no session: every log row comes from a conforming
\* response and holds a grade of the scale.
C15_OnlyConformingPersisted ==
    \A i \in 1..Len(logRows) :
        /\ Conforms(ana[logRows[i].sid].data)
        /\ PredictedLevel(ana[logRows[i].sid].data) \in Scale

\* C16: when the upload of the raw clip fails (null returned, or a throw),
\* no session is created from the attempt: no result is displayed for it, no
\* entry is listed and no log row is appended.
C16_NoSessionWithoutRawClip ==
    \A r \in Recs :
        (ana[r].pc \notin {"none", "rejected", "upload"} /\ ~ana[r].raw)
        => /\ FindIndex(logRows, r) = 0
           /\ Listed(r) = {}
           /\ feedbackResult.sess # r

\* C17: when the append of the session's row fails (false returned, or a
\* throw), the attempt ends as failed and none of the later steps is done: no
\* entry is listed and no synthesis job is started.
C17_SaveFailureStops ==
    \A r \in Recs :
        (/\ ~ana[r].saved
         /\ \/ ana[r].pc \in {"unit", "done"}
            \/ ana[r].pc = "failed" /\ ana[r].at \in {"save", "unit"})
        => /\ ana[r].pc = "failed"
           /\ Listed(r) = {}
           /\ job[r] = NoJob

\* C18: a synthesis job is started for every session whose row was appended,
\* whatever becomes of the unit-progress update that follows the append.
C18_JobForEveryPersisted ==
    \A r \in Recs :
        (ana[r].saved /\ ana[r].pc \in {"done", "failed"}) => job[r].pc # "none"

\* C19: when every external call succeeds, a recording that was stopped and
\* not cancelled leads to a log row of its session, and the job eventually
\* sets a non-empty model-audio link on that row.
C19_StoppedRecordingGetsLink ==
    \A r \in Recs :
        (rec[r].st = "stopping" /\ ~rec[r].cancelled)
            ~> (FindIndex(logRows, r) # 0 /\ RowLink(r) # 0)

\* C20: once handleDeleteLog for session s has completed with every one of
\* its requests successful and no job of s is running, neither the log row
\* nor the raw clip nor the model audio of s exists.
C20_DeletedAsUnit ==
    \A s \in Recs :
        (del[s].pc = "done" /\ del[s].assetsOk /\ s \notin JobsInFlight)
        => /\ FindIndex(logRows, s) = 0
           /\ ~RawExists(s)
           /\ ~ModelExists(s)

\* C21: when an asset deletion of handleDeleteLog ends, with a true result,
\* a false result or an exception, the handler goes on to the deletion of
\* the other asset or, after it, to the deletion of the log row.
C21_AssetFailureBlocksNothing ==
    [][\A s \in Recs :
          /\ (del[s].pc = "model" /\ del'[s].pc # "model")
                => del'[s].pc = DelAfterModel(del[s])
          /\ (del[s].pc = "raw" /\ del'[s].pc # "raw")
                => del'[s].pc = "lookup"]_vars

\* C22: when the log-row deletion of handleDeleteLog has succeeded, the unit
\* is reset (status incomplete, grade and last practice '-') in the Progress
\* sheet and in the in-memory unit list iff no session of the unit remains in
\* the log; otherwise the unit's fields are left as they were.
C22_ResetIffNoneRemains ==
    [][\A s \in Recs :
          /\ (del[s].pc = "batch" /\ del'[s].pc \in {"unit", "done"})
                => /\ (del'[s].pc = "unit") <=> (logRows' = <<>>)
                   /\ unitStatus' = unitStatus /\ units' = units
          /\ (del[s].pc = "unit" /\ del'[s].pc = "done")
                => (unitStatus' = "todo" /\ units' = "todo")]_vars

\* C23: at most one recorder is recording or paused and at most one
\* microphone stream is held, whatever the interleaving of startRecording
\* calls with stop and cancel.
C23_OneRecordingSession ==
    /\ Cardinality({r \in Recs : Active(r)}) <= 1
    /\ Cardinality({r \in Recs : rec[r].stream = "held"}) <= 1

\* C24: when getUserMedia fails in startRecording, the permission notice is
\* shown and the controller is idle: isRecording and isPaused are false, no
\* recorder is recording or paused and no microphone stream is held.
C24_DeniedBackToIdle ==
    [][\A r \in Recs :
          (rec[r].st = "acquiring" /\ rec'[r].st = "denied")
              => /\ alerts' = alerts + 1
                 /\ ~isRecording' /\ ~isPaused'
                 /\ \A q \in Recs : ~Active(q)' /\ rec'[q].stream # "held"]_vars

\* C25: togglePauseRecording invoked while no recorder is recording or
\* paused (before any recording, or after the last one was stopped or
\* cancelled) changes neither isRecording nor isPaused nor any recorder.
C25_PauseNoOpWhenIdle ==
    [][((\A r \in Recs : ~Active(r)) /\ TogglePauseRecording)
          => UNCHANGED <<isRecording, isPaused, rec>>]_vars

\* A recording was stopped or cancelled and no recorder is active: the state
\* in which a pause request finds nothing to pause.
C25_Witness ==
    /\ mediaRecorderRef # 0
    /\ rec[mediaRecorderRef].st \in {"stopping", "inactive"}
    /\ \A r \in Recs : ~Active(r)

\* C26: for all parts returned by the grading backend, the stored text (the
\* three cleaned parts joined with the delimiter) splits on the delimiter
\* into exactly three parts, equal to the cleaned intro, body and conclusion.
C26_PartsRoundTrip ==
    restudyParts.st # "none"
        => /\ restudyParts.st = "parts"
           /\ restudyParts.count = 3
           /\ restudyParts.intro = cleanAiText(dataParts.intro)
           /\ restudyParts.body = cleanAiText(dataParts.body)
           /\ restudyParts.conclusion = cleanAiText(dataParts.conclusion)

\* A response whose parts hold brackets, markup and blanks was flattened and
\* split again.
C26_Witness ==
    /\ restudyParts.st = "parts"
    /\ dataParts.intro = <<"[", "a">>
    /\ dataParts.body = <<" ", "]">>
    /\ dataParts.conclusion = <<"a", "*">>

\* C27: a playHighQualityAudio request with any id but the question's, for a
\* text whose normalized key is in the speech cache, starts no synthesis
\* call and no asset fetch, and it plays from the cache: when the status is
\* set to playing without a fetch, decode or synthesis having ended, a source
\* with the request's id is audible.
C27_CachedPlaysWithoutNetwork ==
    [][/\ \A c \in Calls :
            (call'[c].pc \in {"fetch", "synth"} /\ call[c].pc \notin {"fetch", "synth"})
                => \/ Plain(call'[c].text) = ""
                   \/ localTtsCache[Plain(call'[c].text)] = Absent
       /\ ( /\ ttsState' # ttsState
            /\ ttsState'.status = "playing"
            /\ ttsState'.id # "q"
            /\ \A c \in Calls : call[c].pc \in {"fetch", "decode", "synth"}
                                    => call'[c].pc = call[c].pc )
            => /\ activeAudioSource' # 0
               /\ call'[activeAudioSource'].src = "playing"
               /\ call'[activeAudioSource'].id = ttsState'.id]_vars

\* C28: the bytes fetched for a model-answer request (id 'correction' or
\* 'model-<session>', a model asset) are decoded as raw samples, those
\* fetched for a user-raw request (id 'raw-user' or 'user-<session>', a raw
\* recording) go to the audio-container decoder, never the other way round.
C28_DecoderMatchesAsset ==
    [][\A c \in Calls, b \in FetchedBytes :
          FetchDone(c, b)
              => /\ call[c].id \in {"correction", "model-1"} \/ call[c].id \in {"raw-user", "user-1"}
                 /\ call[c].id \in {"correction", "model-1"}
                        => (call[c].url = "model" /\ call'[c].pc # "decode")
                 /\ call[c].id \in {"raw-user", "user-1"}
                        => (call[c].url = "raw" /\ call'[c].pc = "decode")]_vars

\* A listed raw recording is in the container decoder while the model answer
\* fetched before it, decoded as raw samples and cached, has its source.
C28_Witness ==
    \E c, d \in Calls :
        /\ call[c].pc = "decode" /\ call[c].id = "user-1" /\ call[c].bytes = "asset"
        /\ call[d].src \in {"playing", "stopped"} /\ call[d].id = "model-1"
        /\ \E t \in Texts : localTtsCache[t] = Asset("a")

\* C29: once the speech cache holds an entry under a key, no step removes
\* the entry or replaces its audio.
C29_CacheAppendOnly ==
    [][\A t \in Texts :
          localTtsCache[t] # Absent => localTtsCache'[t] = localTtsCache[t]]_vars

\* C30: two sessions whose grading responses are the same hold the same
\* transcript, grade and feedback, whatever Style Direction each was
\* recorded under.
C30_DirectionLeavesGrade ==
    \A r, q \in Recs :
        (ana[r].saved /\ ana[q].saved /\ ana[r].data = ana[q].data)
            => ana[r].result = ana[q].result

\* Two sessions were stored from the same response, one recorded under a
\* selected direction and one under none.
C30_Witness ==
    /\ ana[1].saved /\ ana[2].saved
    /\ ana[1].data = ana[2].data
    /\ ana[1].data.level = ""
    /\ rec[1].dir = "NATIVE" /\ rec[2].dir = "none"

\* A command of the user on playback: a playback button or a stop.
PlaybackCommand ==
    \/ StopAllAudio
    \/ \E c \in Calls, rq \in Requests \cup AssetRequests, su \in BOOLEAN :
           PlayHighQualityAudio(c, rq, su)

\* C31: a playback request that was pending when the user stopped playback,
\* with no playback asked for since, never starts a source; and a source that
\* plays is stopped by a command of the user only, never by a pending
\* request that goes on.
C31_StoppedStaysSilent ==
    [][/\ \A c \in Calls :
            (call[c].stopped /\ call[c].src # "playing") => call'[c].src # "playing"
       /\ \A d \in Calls :
            (call[d].src = "playing" /\ call'[d].src = "stopped") => PlaybackCommand]_vars

\* C32: whenever at least one processOnlyModelMedia invocation is between
\* claiming the marker and finishing, syncingCorrectionSessionId is non-null
\* and is the session id of a running job, also when two jobs overlap and one
\* of them finishes first.
C32_MarkerNamesRunningJob ==
    (JobsInFlight # {}) => syncingCorrectionSessionId \in JobsInFlight

\* The result of session s has been displayed (616).
Displayed(s) == ana[s].pc \in {"save", "unit", "done"}

\* The job of session s has ended (673-675).
JobEnded(s) == job[s].pc \in {"done", "failed"}

\* C33: for each graded session the synthesis backend is called at most once
\* for its model-answer text, the job's call and those of all playback
\* requests counted, from the moment the result is displayed until the job
\* has ended.
C33_OneSynthesisPerSession ==
    \A s \in Recs :
        (Displayed(s) /\ ~JobEnded(s) /\ Plain(ana[s].corr) # "")
            => synthCalls[Plain(ana[s].corr)] <= 1

\* C34: the link of the job of session s is attached only to session s: a
\* log row, a listed entry and the displayed result hold no link or the link
\* of their own session, so the displayed result takes the link of a
\* completing job only if it shows that job's session.
C34_LinkOnlyToOwnSession ==
    /\ feedbackResult.audioLink \in {0, feedbackResult.sess}
    /\ \A i \in 1..Len(unitHistory) : unitHistory[i].audioLink \in {0, unitHistory[i].sid}
    /\ \A i \in 1..Len(logRows) : logRows[i].audioLink \in {0, logRows[i].sid}

\* C35: every speech-cache entry maps its key to audio of that key's text:
\* the synthesized audio of the key or the bytes of a stored asset, never the
\* body of a failed (non-2xx) fetch response.
C35_CacheHoldsAudioOfKey ==
    \A t \in Texts :
        /\ localTtsCache[t].kind \in {"absent", "tts", "asset"}
        /\ localTtsCache[t].kind = "tts" => localTtsCache[t].of = t

\* C36: updateStudyLog and deleteStudyLogBySessionId only ever modify or
\* delete the log row whose first column equals the session id they were
\* given, also when another row is deleted between their lookup and their
\* write: a row disappears only in the delete of its own session, the link of
\* a row changes only in the update of its own session, and no row appears
\* without a session id.
C36_OnlyOwnRowTouched ==
    [][/\ \A x \in Recs :
             (FindIndex(logRows, x) # 0 /\ FindIndex(logRows', x) = 0)
                 => (del[x].pc = "batch" /\ del'[x].pc # "batch")
       /\ \A x \in Recs :
             (FindIndex(logRows, x) # 0 /\ FindIndex(logRows', x) # 0
                  /\ logRows'[FindIndex(logRows', x)].audioLink # RowLink(x))
                 => (job[x].pc = "put" /\ job'[x].pc = "done")
       /\ \A i \in 1..Len(logRows') : logRows'[i].sid # 0]_vars

\* The sessions whose handleDeleteLog call has ended after a successful row
\* deletion, and the sessions listed in unitHistory.
Deleted == {s \in Recs : del[s].pc = "done"}
ListedSessions == {unitHistory[i].sid : i \in 1..Len(unitHistory)}

\* C37: once every handleDeleteLog call made has ended successfully, however
\* the calls overlapped, unitHistory lists exactly the sessions listed before
\* minus the deleted ones, and the unit has been reset if none remains.
C37_HistoryMinusDeleted ==
    (Deleted # {} /\ \A s \in Recs : del[s].pc \in {"none", "done"})
        => /\ ListedSessions = Recs \ Deleted
           /\ (Deleted = Recs) => units = "todo"

\* C38: whenever no log fetch of selectUnit is pending, every entry of
\* unitHistory belongs to the unit currently selected, whatever the order in
\* which fetches complete and also when a grading attempt or a job finishes
\* after the unit was switched.
C38_HistoryOfSelectedUnit ==
    (\A k \in Sels : sel[k].pc # "fetch")
        => \A i \in 1..Len(unitHistory) : UnitOf(unitHistory[i].sid) = selectedUnitIdx

\* The Style Direction the grading request and the log row of recording r
\* are built with (543-590): selectedDirection as analyzeAudio reads it in the
\* closure of the recorder's onstop handler.
RequestDirection(r) == rec[r].dir

\* C39: the grading request and the persisted session of a recording use the
\* Style Direction (and likewise the keywords and the question) current when
\* the recording is stopped, not the one current when it was started.
C39_InputsAsOfStop ==
    [][\A r \in Recs :
          (Active(r) /\ rec'[r].st = "stopping" /\ ~rec'[r].cancelled)
              => RequestDirection(r) = selectedDirection]_vars

\* C40: when analyzeAudio has ended with the failure notice, no grading
\* result of that attempt is left displayed; and the result displayed for an
\* attempt that has ended belongs to a session whose log row was persisted.
C40_FailedShowsNothing ==
    \A r \in Recs :
        /\ ana[r].pc = "failed" => feedbackResult.sess # r
        /\ (ana[r].pc = "done" /\ feedbackResult.sess = r) => ana[r].saved

====
